---- MODULE Spec2Model ----
(***************************************************************************)
(* The tweet input pipelines of src/data/tweets_data.py (TweetDataset and  *)
(* TweetDatasetGenerator) and the padding helpers of                       *)
(* src/embedding/BERT_EMBEDDING.py, as state machines.                     *)
(*                                                                         *)
(* A text line is the record [file |-> i, line |-> j].  A tf.data pipeline  *)
(* is lazy: construction fixes its parameters, every iterator opened on it  *)
(* runs the stages again (reading, shuffling, batching, skip/take).        *)
(***************************************************************************)
EXTENDS Integers, Sequences, FiniteSets, TLC

VARIABLES
    args,            \* the constructor's arguments
    pc,              \* "new", "built", "error" (the constructor raised) or "split"
    error,           \* the exception the constructor raised, or "none"
    self,            \* the fields of the constructed object
    cache,           \* the cache files, by path
    it,              \* the consumer's open iterator over one split
    out,             \* what the last request on the open iterator returned
    opens,           \* iterators opened so far
    firstPass,       \* per cached split: the batches of its first complete pass
    replayed,        \* per cached split: every later complete pass equalled the first
    seen,            \* per split: the input records it has delivered (when kept)
    tokens,          \* BERT_EMBEDDING helpers: the token list
    max_seq_length,  \* BERT_EMBEDDING helpers: the length asked for
    result           \* BERT_EMBEDDING helpers: what the last call returned

vars == <<args, pc, error, self, cache, it, out, opens, firstPass, replayed, seen,
          tokens, max_seq_length, result>>

pipeVars == <<args, pc, error, self, cache, it, out, opens, firstPass, replayed, seen>>

embedVars == <<tokens, max_seq_length, result>>

----------------------------------------------------------------------------
(* Bounds of the model.                                                    *)

MaxFiles == 2
MaxLines == 2
MaxBatch == 2
MaxOpens == 2
MaxPasses == 2
MaxRand == 2
SizeStep == 10
MaxSizeSteps == 10
MaxSplitBatch == 10
MaxTokens == 4
MaxSeqLen == 5

(* data.full_dimension: the module `data` sets it; the pipelines only read it. *)
full_dimension == 3

(* Fractions are the decimal literals k/FracDen, k in 0..FracDen.          *)
FracDen == 10

----------------------------------------------------------------------------
(* Python floats: IEEE-754 binary64, round to nearest even.  A float is a  *)
(* record [m, e] of value m * 2^e, m a sequence of Mantissa bits (most     *)
(* significant first), or m = <<>> for 0.0.                                *)

Mantissa == 53

Front(s) == SubSeq(s, 1, Len(s) - 1)

Last(s) == s[Len(s)]

RECURSIVE NatBits(_)
NatBits(n) == IF n = 0 THEN <<>> ELSE Append(NatBits(n \div 2), n % 2)

RECURSIVE BitsNat(_)
BitsNat(b) == IF b = <<>> THEN 0 ELSE 2 * BitsNat(Front(b)) + Last(b)

Strip(b) ==
    LET ones == {k \in 1..Len(b) : b[k] = 1}
    IN  IF ones = {} THEN <<>>
        ELSE SubSeq(b, CHOOSE k \in ones : \A j \in ones : k <= j, Len(b))

Zeros(n) == [k \in 1..n |-> 0]

(* b + 1 *)
IncBits(b) ==
    LET zs == {k \in 1..Len(b) : b[k] = 0}
    IN  IF zs = {} THEN <<1>> \o Zeros(Len(b))
        ELSE LET p == CHOOSE k \in zs : \A j \in zs : j <= k
             IN  SubSeq(b, 1, p - 1) \o <<1>> \o Zeros(Len(b) - p)

Reverse(s) == [k \in 1..Len(s) |-> s[Len(s) + 1 - k]]

(* b * n + c for b with its least significant bit first, by schoolbook  *)
(* multiplication split in halves: [q |-> the low Len(b) bits, least    *)
(* significant first, c |-> the carry out]                              *)
RECURSIVE MulCarry(_, _, _)
MulCarry(b, n, c) ==
    IF b = <<>> THEN [q |-> <<>>, c |-> c]
    ELSE IF Len(b) = 1
    THEN [q |-> <<(b[1] * n + c) % 2>>, c |-> (b[1] * n + c) \div 2]
    ELSE LET h == Len(b) \div 2
             lo == MulCarry(SubSeq(b, 1, h), n, c)
             hi == MulCarry(SubSeq(b, h + 1, Len(b)), n, lo.c)
         IN  [q |-> lo.q \o hi.q, c |-> hi.c]

MulBits(b, n) ==
    LET p == MulCarry(Reverse(b), n, 0) IN Strip(NatBits(p.c) \o Reverse(p.q))

(* (r * 2^Len(b) + b) divided by n, for r < n, by long division from  *)
(* the high end, split in halves: [q |-> quotient bits, r |-> remainder]  *)
RECURSIVE DivRem(_, _, _)
DivRem(b, n, r) ==
    IF b = <<>> THEN [q |-> <<>>, r |-> r]
    ELSE IF Len(b) = 1
    THEN [q |-> <<(2 * r + b[1]) \div n>>, r |-> (2 * r + b[1]) % n]
    ELSE LET h == Len(b) \div 2
             hi == DivRem(SubSeq(b, 1, h), n, r)
             lo == DivRem(SubSeq(b, h + 1, Len(b)), n, hi.r)
         IN  [q |-> hi.q \o lo.q, r |-> lo.r]

(* The float nearest to (b + f) * 2^e, b a bit string without leading      *)
(* zeros, 0 <= f < 1, sticky = (f > 0).                                    *)
RoundFloat(b, sticky, e) ==
    IF b = <<>> THEN [m |-> <<>>, e |-> 0]
    ELSE IF Len(b) <= Mantissa
    THEN [m |-> b \o Zeros(Mantissa - Len(b)), e |-> e - (Mantissa - Len(b))]
    ELSE LET keep == SubSeq(b, 1, Mantissa)
             guard == b[Mantissa + 1]
             rest == sticky \/ \E k \in (Mantissa + 2)..Len(b) : b[k] = 1
             up == guard = 1 /\ (rest \/ keep[Mantissa] = 1)
             m2 == IF up THEN IncBits(keep) ELSE keep
             e2 == e + (Len(b) - Mantissa)
         IN  IF Len(m2) > Mantissa
             THEN [m |-> SubSeq(m2, 1, Mantissa), e |-> e2 + 1]
             ELSE [m |-> m2, e |-> e2]

FloatOfInt(n) == RoundFloat(NatBits(n), FALSE, 0)

(* x * n for a float x >= 0 and an int n >= 0 *)
FloatMul(x, n) == RoundFloat(MulBits(x.m, n), FALSE, x.e)

(* x / n for a float x >= 0 and an int n in 1..1023 *)
FloatDiv(x, n) ==
    LET d == DivRem(x.m \o Zeros(12), n, 0)
    IN  RoundFloat(Strip(d.q), d.r # 0, x.e - 12)

(* int(x) for a float x >= 0: truncation *)
IntOfFloat(x) ==
    IF x.m = <<>> \/ Mantissa + x.e <= 0 THEN 0
    ELSE IF x.e <= 0 THEN BitsNat(SubSeq(x.m, 1, Mantissa + x.e))
    ELSE BitsNat(x.m \o Zeros(x.e))

(* the float a decimal literal k/FracDen denotes *)
Fraction(k) == FloatDiv(FloatOfInt(k), FracDen)

----------------------------------------------------------------------------
(* tf.data transformations on the sequence of elements one traversal sees. *)

Min(a, b) == IF a <= b THEN a ELSE b

(* Dataset.take(count): a negative count takes everything *)
Take(s, count) == IF count < 0 THEN s ELSE SubSeq(s, 1, Min(count, Len(s)))

(* Dataset.skip(count): a negative count skips everything *)
Skip(s, count) == IF count < 0 THEN <<>> ELSE SubSeq(s, Min(count, Len(s)) + 1, Len(s))

(* Dataset.batch(batch_size, drop_remainder) *)
Batch(s, batch_size, drop_remainder) ==
    LET full == Len(s) \div batch_size
        n == IF drop_remainder \/ Len(s) % batch_size = 0 THEN full ELSE full + 1
    IN  [k \in 1..n |-> SubSeq(s, (k - 1) * batch_size + 1, Min(k * batch_size, Len(s)))]

(* Dataset.zip((x, y)): ends with the shorter one *)
Zip(x, y) == [k \in 1..Min(Len(x), Len(y)) |-> <<x[k], y[k]>>]

(* Dataset.shuffle(buffer_size): fill a buffer with the first buffer_size  *)
(* elements; emit the element at a random slot and refill the slot from    *)
(* upstream, until upstream and buffer are empty.  r is the stream of      *)
(* random numbers of this traversal.                                       *)
RECURSIVE ShuffleRun(_, _, _, _)
ShuffleRun(buf, rest, r, t) ==
    IF Len(buf) = 0 THEN <<>>
    ELSE LET i == (r[t] % Len(buf)) + 1
             refill == IF Len(rest) > 0
                       THEN [buf EXCEPT ![i] = Head(rest)]
                       ELSE [k \in 1..(Len(buf) - 1) |-> IF k = i THEN buf[Len(buf)] ELSE buf[k]]
         IN  <<buf[i]>> \o ShuffleRun(refill, IF Len(rest) > 0 THEN Tail(rest) ELSE <<>>, r, t + 1)

Shuffle(s, buffer_size, r) == ShuffleRun(Take(s, buffer_size), Skip(s, buffer_size), r, 1)

(* the random streams a traversal of n elements can draw *)
Streams(n) == [1..n -> 0..(MaxRand - 1)]

(* tf.one_hot(label, 2) *)
OneHot(label) == [k \in 1..2 |-> IF k - 1 = label THEN 1 ELSE 0]

(* Python's None as the labels argument *)
NoneLabels == <<-1>>

(* Python truthiness of the labels argument: None and [] are false *)
Truthy(labels) == labels # NoneLabels /\ Len(labels) > 0

(* tf.data.TextLineDataset(path): the lines of file i, in order *)
TextLineDataset(i) == [j \in 1..args.input_files[i] |-> [file |-> i, line |-> j]]

RECURSIVE Concatenate(_)
Concatenate(datasets) ==
    IF Len(datasets) = 0 THEN <<>> ELSE Head(datasets) \o Concatenate(Tail(datasets))

----------------------------------------------------------------------------
(* Arguments.  input_files is the list of the files' line counts; labels   *)
(* is a list of class indices, or NoneLabels.                              *)

Splits == {"train", "validate", "test"}

NoPipe == [skip |-> 0, take |-> 0, drop_remainder |-> FALSE, repeat |-> FALSE]

NoSelf ==
    [mode |-> "none", dataset |-> <<>>, x |-> <<>>, y |-> <<>>,
     steps_per_epoch |-> 0, valid_steps_per_epoch |-> 0,
     train_size |-> 0, valid_size |-> 0, test_size |-> 0,
     train |-> NoPipe, validate |-> NoPipe, test |-> NoPipe]

NoIter == [split |-> "none", src |-> <<>>, seq |-> <<>>, pos |-> 0, pass |-> 0,
           cached |-> FALSE, x |-> <<>>, y |-> <<>>]

NoOut == [split |-> "none", kind |-> "none", value |-> <<>>]

NoFile == [final |-> FALSE, data |-> <<>>]

NoSeen == [on |-> FALSE, by |-> [s \in Splits |-> {}]]

Paths == {"train_data", "valid_data", "test_data", "x", "y"}

(* the cache file of a TweetDataset split (lines 93-97) *)
CachePath(split) ==
    CASE split = "train" -> "train_data"
      [] split = "validate" -> "valid_data"
      [] OTHER -> "test_data"

----------------------------------------------------------------------------
(* TweetDataset                                                            *)

(* load_dataset, lines 115-157: [error, dataset]; dataset is the merged    *)
(* sequence that the final shuffle(buffer_size=size) reads on each         *)
(* traversal.  With bert, tf_encode (lines 137-144) turns each line into   *)
(* the pair (ids, mask); map(lambda line: (line)) (line 156) is then       *)
(* called with two arguments for its one parameter.                        *)
load_dataset ==
    LET n == Len(args.input_files)
        datasets == [i \in 1..n |-> Take(TextLineDataset(i), args.size \div n)]
        labelled == [i \in 1..n |->
                        [j \in 1..Len(datasets[i]) |->
                            <<datasets[i][j], OneHot(args.labels[i])>>]]
    IN  IF Truthy(args.labels)
        THEN IF Len(args.labels) # n
             THEN [error |-> "AssertionError", dataset |-> <<>>]
             ELSE [error |-> "none", dataset |-> Concatenate(labelled)]
        ELSE IF args.bert_embed
        THEN [error |-> "TypeError", dataset |-> <<>>]
        ELSE [error |-> "none", dataset |-> Concatenate(datasets)]

(* int(validation_size*self.size/batch_size), line 204 *)
validation_split ==
    IntOfFloat(FloatDiv(FloatMul(Fraction(args.validation_size), args.size), args.batch_size))

(* int(test_size*self.size/batch_size), line 205 *)
test_split ==
    IntOfFloat(FloatDiv(FloatMul(Fraction(args.test_size), args.size), args.batch_size))

(* int(self.size/batch_size) - validation_split - test_split, line 206 *)
train_split(validation, test) ==
    IntOfFloat(FloatDiv(FloatOfInt(args.size), args.batch_size)) - validation - test

(* split_views with training carved from the head and validation from the *)
(* tail                                                                    *)
split_views_backwards(validation, test) ==
    [train |-> [skip |-> 0, take |-> validation,
                drop_remainder |-> FALSE, repeat |-> FALSE],
     validate |-> [skip |-> validation + test, take |-> -1,
                   drop_remainder |-> FALSE, repeat |-> FALSE],
     test |-> [skip |-> validation, take |-> test,
               drop_remainder |-> FALSE, repeat |-> FALSE]]

(* the three views over the batched dataset, lines 211, 214, 218; no take  *)
(* stage is take |-> -1                                                    *)
split_views(validation, test) ==
    [train |-> [skip |-> validation + test, take |-> -1,
                drop_remainder |-> FALSE, repeat |-> FALSE],
     validate |-> [skip |-> 0, take |-> validation,
                   drop_remainder |-> FALSE, repeat |-> FALSE],
     test |-> [skip |-> validation, take |-> test,
               drop_remainder |-> FALSE, repeat |-> FALSE]]

(* split_dataset, lines 198-223: the fields it sets and the views it       *)
(* returns                                                                 *)
split_dataset ==
    LET validation == validation_split
        test == test_split
        views == split_views(validation, test)
    IN  [steps_per_epoch |-> train_split(validation, test),
         valid_steps_per_epoch |-> validation,
         train |-> views.train,
         validate |-> views.validate,
         test |-> views.test]

(* encode_text without labels, lines 185-196: encode_map_fn_no_label       *)
(* unpacks the one tensor that tf.py_function returns into two names,      *)
(* which the tracing of map refuses                                        *)
encode_text == [error |-> "OperatorNotAllowedInGraphError"]

(* self.dataset.padded_batch(batch_size, padded_shapes=[max_len]), line    *)
(* 100: the elements that reach it are text lines, scalars, which have no  *)
(* dimension to pad                                                        *)
padded_batch == [error |-> "ValueError"]

(* TweetDataset.__init__, lines 74-101 (encode_text with labels is not     *)
(* modelled: the arguments keep it False there)                            *)
TweetDataset_init ==
    LET loaded == load_dataset
        sp == split_dataset
    IN  IF loaded.error # "none"
        THEN [error |-> loaded.error, self |-> NoSelf]
        ELSE IF args.encode_text /\ ~args.bert_embed /\ ~Truthy(args.labels)
        THEN [error |-> encode_text.error, self |-> NoSelf]
        ELSE IF ~Truthy(args.labels) /\ args.do_padding
        THEN [error |-> padded_batch.error, self |-> NoSelf]
        ELSE IF Truthy(args.labels)
        THEN [error |-> "none",
              self |-> [NoSelf EXCEPT !.mode = "supervised",
                                      !.dataset = loaded.dataset,
                                      !.steps_per_epoch = sp.steps_per_epoch,
                                      !.valid_steps_per_epoch = sp.valid_steps_per_epoch,
                                      !.train = sp.train,
                                      !.validate = sp.validate,
                                      !.test = sp.test]]
        ELSE [error |-> "none",
              self |-> [NoSelf EXCEPT !.mode = "predict", !.dataset = loaded.dataset]]

----------------------------------------------------------------------------
(* TweetDatasetGenerator                                                   *)

(* map(..., num_parallel_calls=4), lines 301 and 310: a parallel map may   *)
(* have read this many elements ahead of its consumer.                     *)
num_parallel_calls == 4

(* load_data_from_files, lines 256-279: [error, x, y]; x and y are what    *)
(* the two shuffle(buffer_size=length, seed=0) stages read.                *)
load_data_from_files ==
    LET n == Len(args.input_files)
        length == args.size \div n
        datasets == [i \in 1..n |-> TextLineDataset(i)]
        dataset_labels == [i \in 1..n |-> [j \in 1..length |-> args.labels[i]]]
    IN  IF args.labels = NoneLabels
        THEN [error |-> "TypeError", x |-> <<>>, y |-> <<>>]
        ELSE IF Len(args.labels) < n
        THEN [error |-> "IndexError", x |-> <<>>, y |-> <<>>]
        ELSE IF length = 0
        THEN [error |-> "InvalidArgumentError", x |-> <<>>, y |-> <<>>]
        ELSE [error |-> "none", x |-> Concatenate(datasets), y |-> Concatenate(dataset_labels)]

(* split_data, lines 313-326 *)
split_data ==
    LET train_size == IntOfFloat(FloatMul(Fraction(args.train_p), args.size))
        valid_size == IntOfFloat(FloatMul(Fraction(args.valid_p), args.size))
        test_size == IntOfFloat(FloatMul(Fraction(args.test_p), args.size))
    IN  [train_size |-> train_size \div args.batch_size,
         valid_size |-> valid_size \div args.batch_size,
         test_size |-> test_size \div args.batch_size,
         train |-> [skip |-> 0, take |-> train_size],
         validate |-> [skip |-> train_size, take |-> valid_size],
         test |-> [skip |-> train_size + valid_size, take |-> test_size]]

(* batch_and_prepare, lines 328-332 *)
batch_and_prepare(dataset, is_training) ==
    [skip |-> dataset.skip, take |-> dataset.take,
     drop_remainder |-> is_training, repeat |-> TRUE]

(* the size check of TweetDatasetGenerator.__init__, line 238 *)
size_accepted == args.size < full_dimension

(* TweetDatasetGenerator.__init__, lines 238-253 *)
TweetDatasetGenerator_init ==
    LET loaded == load_data_from_files
        sp == split_data
    IN  IF ~size_accepted
        THEN [error |-> "AssertionError: The size is too big", self |-> NoSelf]
        ELSE IF loaded.error # "none"
        THEN [error |-> loaded.error, self |-> NoSelf]
        ELSE [error |-> "none",
              self |-> [NoSelf EXCEPT !.mode = "supervised",
                                      !.x = loaded.x,
                                      !.y = loaded.y,
                                      !.train_size = sp.train_size,
                                      !.valid_size = sp.valid_size,
                                      !.test_size = sp.test_size,
                                      !.train = batch_and_prepare(sp.train, TRUE),
                                      !.validate = batch_and_prepare(sp.validate, FALSE),
                                      !.test = batch_and_prepare(sp.test, FALSE)]]

----------------------------------------------------------------------------
(* One traversal of a split.                                               *)

Max(a, b) == IF a >= b THEN a ELSE b

Pipe(split) ==
    CASE split = "train" -> self.train
      [] split = "validate" -> self.validate
      [] OTHER -> self.test

(* TweetDataset: shuffle(buffer_size=size) (line 157), batch(batch_size)   *)
(* (line 203)                                                              *)
BatchedDataset(r) ==
    Batch(Shuffle(self.dataset, args.size, r), args.batch_size, FALSE)

(* TweetDataset: a split is skip/take over the batched dataset (lines 211, *)
(* 214, 218)                                                               *)
SplitView(p, batched) == Take(Skip(batched, p.skip), p.take)

(* TweetDatasetGenerator: x and y as one traversal reads them: from the    *)
(* cache file once it is complete, else shuffled again; shuffle(seed=0) on *)
(* both draws the same random stream (lines 277-278)                       *)
ShuffledX(r) ==
    IF cache["x"].final THEN cache["x"].data
    ELSE Shuffle(self.x, args.size \div Len(args.input_files), r)

ShuffledY(r) ==
    IF cache["y"].final THEN cache["y"].data
    ELSE Shuffle(self.y, args.size \div Len(args.input_files), r)

(* preprocess_xy maps y to one_hot (lines 296-301); split_data zips x and  *)
(* y (line 322)                                                            *)
Zipped(x, y) == Zip(x, [k \in 1..Len(y) |-> OneHot(y[k])])

(* TweetDatasetGenerator: a split is skip/take over the zipped elements    *)
(* (lines 323-325), then batch(batch_size, drop_remainder) (line 330)      *)
SplitBatches(p, zipped) ==
    Batch(Take(Skip(zipped, p.skip), p.take), args.batch_size, p.drop_remainder)

IsCached == args.cls = "TweetDatasetGenerator" \/ (self.mode = "supervised" /\ args.caching)

(* elements of x that the zip has asked for when a pass of p has delivered *)
(* `batches` batches (all of them: the pass has ended)                     *)
Requested(p, batches, ended) ==
    LET l == Min(Len(self.x), Len(self.y))
    IN  IF p.take = 0 \/ (batches = 0 /\ ~ended) THEN 0
        ELSE IF ended THEN Min(p.skip + p.take, l + 1)
        ELSE Min(p.skip + batches * args.batch_size, l)

(* cache(path) writes the file when its input has been read to the end;    *)
(* the parallel maps behind the caches may have read `ax`, `ay` elements   *)
(* ahead.  The zip asks x first and asks y only if x had an element.       *)
CacheAfter(p, batches, ended, x, y, ax, ay) ==
    LET req == Requested(p, batches, ended)
        reqY == IF req > Len(self.x) THEN req - 1 ELSE req
        finalX == req > 0 /\ req + ax > Len(self.x)
        finalY == req > 0 /\ reqY + ay > Len(self.y)
    IN  [cache EXCEPT
            !["x"] = IF ~@.final /\ finalX THEN [final |-> TRUE, data |-> x] ELSE @,
            !["y"] = IF ~@.final /\ finalY THEN [final |-> TRUE, data |-> y] ELSE @]

(* the records of a delivered batch join those its split has delivered     *)
See(split, batch) ==
    IF seen.on /\ split \in Splits
    THEN [seen EXCEPT !.by[split] = @ \cup {batch[k][1] : k \in 1..Len(batch)}]
    ELSE seen

Record(split, seq) ==
    /\ firstPass' = IF IsCached /\ ~firstPass[split].final
                    THEN [firstPass EXCEPT ![split] = [final |-> TRUE, data |-> seq]]
                    ELSE firstPass
    /\ replayed' = IF IsCached /\ firstPass[split].final
                   THEN [replayed EXCEPT ![split] = @ /\ seq = firstPass[split].data]
                   ELSE replayed

----------------------------------------------------------------------------
(* Actions                                                                 *)

TweetDatasetArgs ==
    [cls : {"TweetDataset"},
     input_files : UNION {[1..n -> 1..MaxLines] : n \in 1..MaxFiles},
     labels : {NoneLabels} \cup UNION {[1..n -> 0..1] : n \in 0..(MaxFiles + 1)},
     batch_size : 1..MaxBatch,
     size : 1..(full_dimension + 1),
     validation_size : {0, 3, FracDen \div 2},
     test_size : {0, 3, FracDen \div 2},
     caching : BOOLEAN,
     bert_embed : BOOLEAN,
     encode_text : {FALSE},
     do_padding : {FALSE},
     max_len : {MaxSeqLen}]

TweetDatasetGeneratorArgs ==
    [cls : {"TweetDatasetGenerator"},
     input_files : UNION {[1..n -> 1..MaxLines] : n \in 1..MaxFiles},
     labels : {NoneLabels} \cup UNION {[1..n -> 0..1] : n \in 0..(MaxFiles + 1)},
     batch_size : 1..MaxBatch,
     size : 1..(full_dimension + 1),
     train_p : {0, FracDen \div 2},
     valid_p : {0, FracDen \div 2},
     test_p : {0, FracDen \div 2}]

Idle ==
    /\ pc = "new"
    /\ error = "none"
    /\ self = NoSelf
    /\ cache = [p \in Paths |-> NoFile]
    /\ it = NoIter
    /\ out = NoOut
    /\ opens = 0
    /\ firstPass = [s \in Splits |-> NoFile]
    /\ replayed = [s \in Splits |-> TRUE]

Init ==
    /\ args \in TweetDatasetArgs \cup TweetDatasetGeneratorArgs
    /\ Idle
    /\ seen = NoSeen
    /\ tokens = <<>>
    /\ max_seq_length = 0
    /\ result = [call |-> "none", raised |-> FALSE, value |-> <<>>]

(* TweetDataset(...) / TweetDatasetGenerator(...) *)
Construct ==
    /\ pc = "new"
    /\ LET made == IF args.cls = "TweetDataset"
                   THEN TweetDataset_init
                   ELSE TweetDatasetGenerator_init
       IN  /\ error' = made.error
           /\ self' = made.self
           /\ pc' = IF made.error = "none" THEN "built" ELSE "error"
    /\ UNCHANGED <<args, cache, it, out, opens, firstPass, replayed, seen>>
    /\ UNCHANGED embedVars

(* iter(split) on a TweetDataset split *)
OpenSplit ==
    /\ pc = "built"
    /\ args.cls = "TweetDataset"
    /\ self.mode = "supervised"
    /\ it.split = "none"
    /\ opens < MaxOpens
    /\ opens' = opens + 1
    /\ LET traversals == {BatchedDataset(r) : r \in Streams(Len(self.dataset))}
       IN  \E split \in Splits :
               IF args.caching /\ cache[CachePath(split)].final
               THEN it' = [NoIter EXCEPT !.split = split, !.pass = 1, !.cached = TRUE,
                                         !.seq = cache[CachePath(split)].data]
               ELSE \E batched \in traversals :
                        it' = [NoIter EXCEPT !.split = split, !.pass = 1,
                                             !.src = batched,
                                             !.seq = SplitView(Pipe(split), batched)]
    /\ out' = NoOut
    /\ UNCHANGED <<args, pc, error, self, cache, firstPass, replayed, seen>>
    /\ UNCHANGED embedVars

(* iter(pred_data): shuffle(size) over the shuffled dataset (line 101) *)
OpenPredict ==
    /\ pc = "built"
    /\ args.cls = "TweetDataset"
    /\ self.mode = "predict"
    /\ it.split = "none"
    /\ opens < MaxOpens
    /\ opens' = opens + 1
    /\ \E seq \in {Shuffle(Shuffle(self.dataset, args.size, r1), args.size, r2) :
                         r1 \in Streams(Len(self.dataset)),
                         r2 \in Streams(Len(self.dataset))} :
           it' = [NoIter EXCEPT !.split = "predict", !.pass = 1, !.seq = seq]
    /\ out' = NoOut
    /\ UNCHANGED <<args, pc, error, self, cache, firstPass, replayed, seen>>
    /\ UNCHANGED embedVars

(* next(iterator) on a TweetDataset split or pred_data: the next batch, or *)
(* the end of the sequence, which completes a cache file being written     *)
GetNext ==
    /\ it.split # "none"
    /\ args.cls = "TweetDataset"
    /\ IF it.pos < Len(it.seq)
       THEN /\ out' = [split |-> it.split, kind |-> "batch", value |-> it.seq[it.pos + 1]]
            /\ it' = [it EXCEPT !.pos = @ + 1]
            /\ seen' = See(it.split, it.seq[it.pos + 1])
            /\ UNCHANGED <<cache, firstPass, replayed>>
       ELSE /\ out' = [split |-> it.split, kind |-> "end", value |-> <<>>]
            /\ it' = NoIter
            /\ seen' = seen
            /\ IF self.mode = "supervised"
               THEN /\ cache' = IF args.caching /\ ~cache[CachePath(it.split)].final
                                THEN [cache EXCEPT ![CachePath(it.split)] =
                                         [final |-> TRUE, data |-> it.seq]]
                                ELSE cache
                    /\ Record(it.split, it.seq)
               ELSE UNCHANGED <<cache, firstPass, replayed>>
    /\ UNCHANGED <<args, pc, error, self, opens>>
    /\ UNCHANGED embedVars

(* iter(split) on a TweetDatasetGenerator split *)
OpenGenerator ==
    /\ pc = "built"
    /\ args.cls = "TweetDatasetGenerator"
    /\ it.split = "none"
    /\ opens < MaxOpens
    /\ opens' = opens + 1
    /\ LET traversals == {<<ShuffledX(r), ShuffledY(r)>> :
                              r \in Streams(Max(Len(self.x), Len(self.y)))}
       IN  \E split \in Splits, xy \in traversals :
               it' = [NoIter EXCEPT !.split = split, !.pass = 1,
                         !.x = xy[1], !.y = xy[2],
                         !.src = Zipped(xy[1], xy[2]),
                         !.seq = SplitBatches(Pipe(split), Zipped(xy[1], xy[2]))]
    /\ out' = NoOut
    /\ UNCHANGED <<args, pc, error, self, cache, firstPass, replayed, seen>>
    /\ UNCHANGED embedVars

(* next(iterator) on a TweetDatasetGenerator split: the next batch; at the *)
(* end of a pass repeat() (line 331) starts the next pass, unless the pass *)
(* was empty                                                               *)
GetNextGenerator ==
    /\ it.split # "none"
    /\ args.cls = "TweetDatasetGenerator"
    /\ IF it.pos < Len(it.seq)
       THEN /\ out' = [split |-> it.split, kind |-> "batch", value |-> it.seq[it.pos + 1]]
            /\ it' = [it EXCEPT !.pos = @ + 1]
            /\ seen' = See(it.split, it.seq[it.pos + 1])
            /\ UNCHANGED <<cache, firstPass, replayed>>
       ELSE /\ Len(it.seq) = 0 \/ it.pass < MaxPasses
            /\ cache' \in {CacheAfter(Pipe(it.split), Len(it.seq), TRUE, it.x, it.y, ax, ay) :
                              ax \in 0..num_parallel_calls, ay \in 0..num_parallel_calls}
            /\ Record(it.split, it.seq)
            /\ IF Len(it.seq) = 0
               THEN /\ out' = [split |-> it.split, kind |-> "end", value |-> <<>>]
                    /\ it' = NoIter
                    /\ seen' = seen
               ELSE \E xy \in {<<IF cache'["x"].final THEN cache'["x"].data
                                   ELSE Shuffle(self.x, args.size \div Len(args.input_files), r),
                                   IF cache'["y"].final THEN cache'["y"].data
                                   ELSE Shuffle(self.y, args.size \div Len(args.input_files), r)>> :
                                     r \in Streams(Max(Len(self.x), Len(self.y)))} :
                        LET seq == SplitBatches(Pipe(it.split), Zipped(xy[1], xy[2]))
                        IN  /\ it' = [it EXCEPT !.pass = @ + 1, !.pos = 1,
                                                !.x = xy[1], !.y = xy[2],
                                                !.src = Zipped(xy[1], xy[2]), !.seq = seq]
                            /\ out' = [split |-> it.split, kind |-> "batch", value |-> seq[1]]
                            /\ seen' = See(it.split, seq[1])
    /\ UNCHANGED <<args, pc, error, self, opens>>
    /\ UNCHANGED embedVars

(* the consumer drops its iterator; a cache file not read to the end is    *)
(* discarded                                                               *)
Close ==
    /\ it.split # "none"
    /\ it' = NoIter
    /\ IF args.cls = "TweetDatasetGenerator"
       THEN cache' \in {CacheAfter(Pipe(it.split), it.pos, FALSE, it.x, it.y, ax, ay) :
                           ax \in 0..num_parallel_calls, ay \in 0..num_parallel_calls}
       ELSE cache' = cache
    /\ UNCHANGED <<args, pc, error, self, out, opens, firstPass, replayed, seen>>
    /\ UNCHANGED embedVars

Next ==
    \/ Construct
    \/ OpenSplit
    \/ OpenPredict
    \/ GetNext
    \/ OpenGenerator
    \/ GetNextGenerator
    \/ Close

Spec == Init /\ [][Next]_vars

----------------------------------------------------------------------------
(* The splits of a TweetDataset built in supervised mode without caching,  *)
(* bert_embed at its default, its files alternating between the two        *)
(* classes: every traversal reads                                          *)
(* the batched dataset.                                                    *)

TraverseInit ==
    /\ args \in {a \in TweetDatasetArgs :
                    /\ a.labels = [i \in 1..Len(a.input_files) |-> (i - 1) % 2]
                    /\ ~a.caching
                    /\ a.bert_embed}
    /\ Idle
    /\ seen = NoSeen
    /\ tokens = <<>>
    /\ max_seq_length = 0
    /\ result = [call |-> "none", raised |-> FALSE, value |-> <<>>]

TraverseNext ==
    \/ Construct
    \/ OpenSplit
    \/ GetNext
    \/ Close

SpecTraverse == TraverseInit /\ [][TraverseNext]_vars

----------------------------------------------------------------------------
(* Both pipelines built with one label per file, the records each split    *)
(* delivers being kept in seen.                                            *)

SeenInit ==
    /\ args \in {a \in TweetDatasetArgs \cup TweetDatasetGeneratorArgs :
                    /\ a.labels = [i \in 1..Len(a.input_files) |-> (i - 1) % 2]
                    /\ a.cls = "TweetDataset" => a.bert_embed}
    /\ Idle
    /\ seen = [NoSeen EXCEPT !.on = TRUE]
    /\ tokens = <<>>
    /\ max_seq_length = 0
    /\ result = [call |-> "none", raised |-> FALSE, value |-> <<>>]

SeenNext ==
    \/ Construct
    \/ OpenSplit
    \/ GetNext
    \/ OpenGenerator
    \/ GetNextGenerator
    \/ Close

SpecSeen == SeenInit /\ [][SeenNext]_vars

----------------------------------------------------------------------------
(* TweetDataset in prediction mode (labels=None), over every combination   *)
(* of bert_embed, encode_text and do_padding.                              *)

PredictArgs ==
    [cls : {"TweetDataset"},
     input_files : UNION {[1..n -> 1..MaxLines] : n \in 1..MaxFiles},
     labels : {NoneLabels},
     batch_size : 1..MaxBatch,
     size : 1..(full_dimension + 1),
     validation_size : {0},
     test_size : {0},
     caching : {FALSE},
     bert_embed : BOOLEAN,
     encode_text : BOOLEAN,
     do_padding : BOOLEAN,
     max_len : 1..MaxSeqLen]

PredictInit ==
    /\ args \in PredictArgs
    /\ Idle
    /\ seen = NoSeen
    /\ tokens = <<>>
    /\ max_seq_length = 0
    /\ result = [call |-> "none", raised |-> FALSE, value |-> <<>>]

PredictNext ==
    \/ Construct
    \/ OpenPredict
    \/ GetNext
    \/ Close

SpecPredict == PredictInit /\ [][PredictNext]_vars

----------------------------------------------------------------------------
(* split_dataset alone, over a wide range of sizes, batch sizes and        *)
(* fractions.                                                              *)

SplitArgs ==
    [cls : {"TweetDataset"},
     batch_size : 1..MaxSplitBatch,
     size : {SizeStep * i : i \in 0..MaxSizeSteps},
     validation_size : 0..FracDen,
     test_size : 0..FracDen]

SplitInit ==
    /\ args \in SplitArgs
    /\ Idle
    /\ seen = NoSeen
    /\ tokens = <<>>
    /\ max_seq_length = 0
    /\ result = [call |-> "none", raised |-> FALSE, value |-> <<>>]

SplitDataset ==
    /\ pc = "new"
    /\ pc' = "split"
    /\ LET sp == split_dataset
       IN  self' = [NoSelf EXCEPT !.mode = "supervised",
                                  !.steps_per_epoch = sp.steps_per_epoch,
                                  !.valid_steps_per_epoch = sp.valid_steps_per_epoch,
                                  !.train = sp.train,
                                  !.validate = sp.validate,
                                  !.test = sp.test]
    /\ UNCHANGED <<args, error, cache, it, out, opens, firstPass, replayed, seen>>
    /\ UNCHANGED embedVars

SplitNext == SplitDataset

SpecSplit == SplitInit /\ [][SplitNext]_vars

----------------------------------------------------------------------------
(* src/embedding/BERT_EMBEDDING.py and the get_bert_encoding adapters.     *)

Vocabulary == {"[SEP]", "tweet"}

(* tokenizer.convert_tokens_to_ids on one token (BERT's vocabulary) *)
TokenId(token) == IF token = "[SEP]" THEN 102 ELSE IF token = "[CLS]" THEN 101 ELSE 1000

(* Python's [v] * n: empty for n <= 0 *)
Times(v, n) == [k \in 1..n |-> v]

Raised(call) == [call |-> call, raised |-> TRUE, value |-> <<>>]

Returned(call, value) == [call |-> call, raised |-> FALSE, value |-> value]

(* get_masks, lines 10-14 *)
get_masks ==
    IF Len(tokens) > max_seq_length THEN Raised("get_masks")
    ELSE Returned("get_masks", Times(1, Len(tokens)) \o Times(0, max_seq_length - Len(tokens)))

RECURSIVE Segments(_, _)
Segments(toks, current_segment_id) ==
    IF Len(toks) = 0 THEN <<>>
    ELSE <<current_segment_id>>
         \o Segments(Tail(toks), IF Head(toks) = "[SEP]" THEN 1 ELSE current_segment_id)

(* get_segments, lines 17-27 *)
get_segments ==
    IF Len(tokens) > max_seq_length THEN Raised("get_segments")
    ELSE Returned("get_segments", Segments(tokens, 0) \o Times(0, max_seq_length - Len(tokens)))

(* get_ids, lines 30-34 *)
get_ids ==
    LET token_ids == [k \in 1..Len(tokens) |-> TokenId(tokens[k])]
    IN  Returned("get_ids", token_ids \o Times(0, max_seq_length - Len(token_ids)))

(* max_length=50 of TweetDataset.get_bert_encoding *)
max_length == 50

(* tokenizer.encode_plus(text, max_length, add_special_tokens=True,        *)
(* pad_to_max_length=True, return_attention_mask=True): the text's tokens  *)
(* between [CLS] and [SEP], cut to length and padded with 0 to length;     *)
(* value is <<input_ids, attention_mask>>                                  *)
encode_plus(toks, length) ==
    LET kept == <<"[CLS]">> \o Take(toks, length - 2) \o <<"[SEP]">>
        input_ids == [k \in 1..Len(kept) |-> TokenId(kept[k])]
    IN  <<input_ids \o Times(0, length - Len(kept)),
          Times(1, Len(kept)) \o Times(0, length - Len(kept))>>

(* TweetDataset.get_bert_encoding, lines 103-113 *)
TweetDataset_get_bert_encoding ==
    Returned("TweetDataset.get_bert_encoding", encode_plus(tokens, max_length))

(* TweetDatasetGenerator.get_bert_encoding, lines 282-291, with            *)
(* self.max_len = max_seq_length                                           *)
TweetDatasetGenerator_get_bert_encoding ==
    Returned("TweetDatasetGenerator.get_bert_encoding", encode_plus(tokens, max_seq_length))

EmbedInit ==
    /\ tokens \in UNION {[1..n -> Vocabulary] : n \in 0..MaxTokens}
    /\ max_seq_length \in 0..MaxSeqLen
    /\ result = [call |-> "none", raised |-> FALSE, value |-> <<>>]
    /\ args = [cls |-> "none"]
    /\ Idle
    /\ seen = NoSeen

GetMasks == result' = get_masks /\ UNCHANGED <<tokens, max_seq_length>> /\ UNCHANGED pipeVars

GetSegments == result' = get_segments /\ UNCHANGED <<tokens, max_seq_length>> /\ UNCHANGED pipeVars

GetIds == result' = get_ids /\ UNCHANGED <<tokens, max_seq_length>> /\ UNCHANGED pipeVars

GetBertEncoding ==
    /\ max_seq_length >= 2
    /\ result' = TweetDataset_get_bert_encoding
    /\ UNCHANGED <<tokens, max_seq_length>>
    /\ UNCHANGED pipeVars

GetBertEncodingGenerator ==
    /\ max_seq_length >= 2
    /\ result' = TweetDatasetGenerator_get_bert_encoding
    /\ UNCHANGED <<tokens, max_seq_length>>
    /\ UNCHANGED pipeVars

EmbedNext ==
    \/ GetMasks
    \/ GetSegments
    \/ GetIds
    \/ GetBertEncoding
    \/ GetBertEncodingGenerator

SpecEmbed == EmbedInit /\ [][EmbedNext]_vars

----------------------------------------------------------------------------
(* Properties                                                              *)

(* C1: constructing with a label list (supervised mode) raises an error    *)
(* tied to the length mismatch if and only if the label list and the file  *)
(* list have different lengths.  The assertion of load_dataset and the     *)
(* IndexError of labels[i] both count as such an error; a generator whose  *)
(* size check already failed is left aside.                                *)
LengthMismatchRaisesIff ==
    (/\ pc \in {"built", "error"}
     /\ args.labels # NoneLabels
     /\ args.cls = "TweetDatasetGenerator" => size_accepted)
    => (error \in {"AssertionError", "IndexError"}
            <=> Len(args.labels) # Len(args.input_files))

(* C2: every record delivered by a supervised split carries the one-hot    *)
(* label of the file it was read from.                                     *)
RecordPairedWithFileLabel ==
    (out.kind = "batch" /\ out.split \in Splits)
    => \A k \in 1..Len(out.value) :
           out.value[k][2] = OneHot(args.labels[out.value[k][1].file])

(* C3: the three batch counts of split_dataset are non-negative and sum to *)
(* at most floor(size / batch_size).                                       *)
BatchCountsBounded ==
    pc = "split"
    => /\ self.steps_per_epoch >= 0
       /\ self.valid_steps_per_epoch >= 0
       /\ self.test.take >= 0
       /\ self.steps_per_epoch + self.valid_steps_per_epoch + self.test.take
              <= args.size \div args.batch_size

(* C4: validation_batches = floor(validation_fraction * size / batch_size),*)
(* test_batches = floor(test_fraction * size / batch_size) and             *)
(* train_batches = floor(size / batch_size) - validation_batches -         *)
(* test_batches, the fractions being validation_size/FracDen and           *)
(* test_size/FracDen.                                                      *)
BatchCountsAreFloors ==
    pc = "split"
    => /\ self.valid_steps_per_epoch
              = (args.validation_size * args.size) \div (FracDen * args.batch_size)
       /\ self.test.take
              = (args.test_size * args.size) \div (FracDen * args.batch_size)
       /\ self.steps_per_epoch
              = (args.size \div args.batch_size)
                    - self.valid_steps_per_epoch - self.test.take

(* C5: over one traversal of the batched sequence it.src, the validation   *)
(* split is exactly its first validation_batches batches, the test split   *)
(* the next test_batches batches and the training split all the batches    *)
(* after them, so that every batch of the sequence is in one of the three. *)
SplitsArePositional ==
    (args.cls = "TweetDataset" /\ it.split \in Splits /\ ~it.cached)
    => LET b == it.src
           validation_batches == self.valid_steps_per_epoch
           test_batches == self.test.take
           first == CASE it.split = "validate" -> 0
                      [] it.split = "test" -> validation_batches
                      [] OTHER -> validation_batches + test_batches
           last == CASE it.split = "validate" -> validation_batches
                     [] it.split = "test" -> validation_batches + test_batches
                     [] OTHER -> Len(b)
       IN  /\ it.seq = SubSeq(b, Min(first, Len(b)) + 1, Min(last, Len(b)))
           /\ (it.pos > 0 /\ out.kind = "batch")
                  => out.value = b[Min(first, Len(b)) + it.pos]

(* a test split is being read from a batched sequence of which the         *)
(* validation, test and training splits each hold at least one batch      *)
SplitsArePositionalWitness ==
    /\ args.cls = "TweetDataset"
    /\ it.split = "test"
    /\ ~it.cached
    /\ it.pos > 0
    /\ out.kind = "batch"
    /\ out.split = "test"
    /\ self.valid_steps_per_epoch > 0
    /\ self.test.take > 0
    /\ Len(it.src) > self.valid_steps_per_epoch + self.test.take

(* C6: every batch a training split delivers has exactly batch_size        *)
(* records, in both pipeline variants.                                     *)
TrainBatchesAreFull ==
    (out.kind = "batch" /\ out.split = "train")
    => Len(out.value) = args.batch_size

(* C7: a training split that holds at least one batch never reports the    *)
(* end of its sequence to the consumer, in both pipeline variants.         *)
TrainNeverEnds ==
    (out.kind = "end" /\ out.split = "train")
    => IF args.cls = "TweetDataset"
       THEN Len(SplitView(self.train, Batch(self.dataset, args.batch_size, FALSE))) = 0
       ELSE Len(SplitBatches(self.train, Zip(self.x, self.y))) = 0

(* C8: each helper and each adapter either raises or returns sequences of  *)
(* exactly the configured maximum length (max_seq_length, the adapters'    *)
(* max_len).                                                               *)
OutputHasMaxLength ==
    (result.call # "none" /\ ~result.raised)
    => IF result.call \in {"get_ids", "get_masks", "get_segments"}
       THEN Len(result.value) = max_seq_length
       ELSE /\ Len(result.value[1]) = max_seq_length
            /\ Len(result.value[2]) = max_seq_length

(* C9: every complete pass over a cached split after the first one yields  *)
(* the batches of the first one, in the same order and with the same       *)
(* record-label pairing.                                                   *)
CachedSplitReplays == \A split \in Splits : replayed[split]

(* C10: construction with a size above full_dimension raises the size      *)
(* error and builds nothing; construction with a size up to                *)
(* full_dimension does not raise it.                                       *)
OversizedSizeRaisesIff ==
    pc \in {"built", "error"}
    => /\ args.size > full_dimension
              => (pc = "error" /\ error = "AssertionError: The size is too big")
       /\ args.size <= full_dimension
              => error # "AssertionError: The size is too big"

(* C11: constructing a TweetDataset with labels=None builds a prediction   *)
(* pipeline, with no split, whatever bert_embed, encode_text and           *)
(* do_padding are (with do_padding=True its batches are to have length     *)
(* max_len), and every element pred_data delivers is a bare input line     *)
(* with no label component.                                                *)
PredictionModeDelivers ==
    /\ (pc \in {"built", "error"} /\ args.labels = NoneLabels)
           => (pc = "built" /\ self.mode = "predict" /\ self.train = NoPipe)
    /\ (out.split = "predict" /\ out.kind = "batch")
           => out.value \in [file : 1..MaxFiles, line : 1..MaxLines]

(* C12: the train, validation and test splits are pairwise disjoint: no    *)
(* input record is delivered by two different splits, in whatever order    *)
(* and however often the splits are traversed.                             *)
SplitsDisjoint ==
    \A s1, s2 \in Splits : s1 # s2 => seen.by[s1] \cap seen.by[s2] = {}

(* C13: the record counts assigned to train, validation and test (batch    *)
(* counts times batch_size in TweetDataset, the element counts of          *)
(* split_data in TweetDatasetGenerator) sum to at most the number of       *)
(* records the merged sequence holds, and the advertised steps_per_epoch,  *)
(* valid_steps_per_epoch (train_size, valid_size, test_size in the         *)
(* generator) are at most the number of batches the split yields in one    *)
(* pass.                                                                   *)
SplitSizesWithinData ==
    (pc = "built" /\ self.mode = "supervised")
    => IF args.cls = "TweetDataset"
       THEN LET batched == Batch(self.dataset, args.batch_size, FALSE)
            IN  /\ (self.steps_per_epoch + self.valid_steps_per_epoch + self.test.take)
                       * args.batch_size <= Len(self.dataset)
                /\ self.steps_per_epoch <= Len(SplitView(self.train, batched))
                /\ self.valid_steps_per_epoch <= Len(SplitView(self.validate, batched))
       ELSE LET zipped == Zip(self.x, self.y)
            IN  /\ self.train.take + self.validate.take + self.test.take <= Len(zipped)
                /\ self.train_size <= Len(SplitBatches(self.train, zipped))
                /\ self.valid_size <= Len(SplitBatches(self.validate, zipped))
                /\ self.test_size <= Len(SplitBatches(self.test, zipped))

====
